---- MODULE Spec2Model ----
(***************************************************************************)
(* Stock mutation core of the inventory tracker: InventoryService          *)
(* (updateStock, reserveStock, releaseStock, updateLocation) over the      *)
(* Inventory and Transaction models, with the database transaction of      *)
(* updateStock modelled step by step (read, UPDATE, INSERT, commit,        *)
(* post-commit work, catch/rollback), the product catalogue's soft delete  *)
(* and the rooms and fan-out methods of SocketService.                     *)
(***************************************************************************)
EXTENDS Integers, Sequences, FiniteSets, TLC

VARIABLES inventory, transactions, rowLock, call, service, product, sockets, fanout

vars == <<inventory, transactions, rowLock, call, service, product, sockets, fanout>>

(* ------------------------------ bounds -------------------------------- *)
MaxQty == 3
MaxStock == 3
MaxLedger == 2
\* the number of clock ticks a call may be seen waiting for a row lock
LockWait == 2

Calls == {1, 2}
Products == {1, 2}
MissingProduct == Cardinality(Products) + 1
ProductIds == Products \cup {MissingProduct}
InitialStocks == {0, 2}
Locations == {"A", "B"}
NoLocation == "undefined"
QtyInputs == (0 - 1) .. MaxQty
\* a quantity input is the number n ("integer"), the number n + 1/2
\* ("fraction"), or absent from updateData ("missing")
QtyForms == {"integer", "fraction", "missing"}
TypeInputs == {"IN", "OUT", "ADJUSTMENT", "TRANSFER"}
\* transaction_type absent from updateData
NoType == ""
MinimumStocks == 0 .. 2
Sockets == {1, 2}
Roles == {"admin", "manager", "user"}
Services == {"sockets", "plain"}

(* ----------------------------- constants ------------------------------ *)
TRANSACTION_TYPES == {"IN", "OUT", "ADJUSTMENT"}

\* static methods the SocketService class defines
SocketServiceMethods ==
    {"initialize", "setupConnection", "emitStockUpdate", "emitLowStockAlert",
     "emitOutOfStockAlert", "emitNewTransaction", "emitProductCreated",
     "emitProductUpdated", "emitDashboardUpdate", "emitUserActivity",
     "emitBulkOperationProgress", "emitBulkOperationComplete"}

\* mutant: NotFoundError missing from the instanceof list of the catch
RethrownErrors_noNotFound == {"ValidationError", "BusinessLogicError"}

\* mutant: BusinessLogicError missing from the instanceof list of the catch
RethrownErrors_noBusinessLogic == {"ValidationError", "NotFoundError"}

\* error classes updateStock's catch block rethrows unchanged
RethrownErrors == {"ValidationError", "NotFoundError", "BusinessLogicError"}

(* --------------------------- pure functions --------------------------- *)
Abs(n) == IF n < 0 THEN 0 - n ELSE n

\* ValidationUtil.validateRequired on quantity and transaction_type: a field
\* fails when it is falsy (undefined, 0, the empty string)
validateRequired(quantity, form, transaction_type) ==
    /\ form # "missing"
    /\ ~(form = "integer" /\ quantity = 0)
    /\ transaction_type # NoType

validateTransactionType(transaction_type) ==
    transaction_type # NoType /\ transaction_type \in TRANSACTION_TYPES

\* mutant: the integer option of validateNumeric is not enforced
validateNumeric_noIntegerCheck(quantity, form) ==
    /\ form # "missing"
    /\ ~(quantity < 1)

\* ValidationUtil.validateNumeric(quantity, {required, min: 1, integer}); for
\* an integer n, n + 1/2 < 1 exactly when n < 1
validateNumeric(quantity, form) ==
    /\ form # "missing"
    /\ form # "fraction"
    /\ ~(quantity < 1)

\* ValidationUtil.sanitizeNumber(quantity, true): Math.floor, which maps both
\* n and n + 1/2 to n
sanitizeNumber(quantity) == quantity

\* the switch of updateStock: the OUT guard
InsufficientStock(transaction_type, current_stock, q) ==
    transaction_type = "OUT" /\ q > current_stock

\* mutant: ADJUSTMENT applied as a relative delta
NewStock_relativeAdjustment(transaction_type, current_stock, q) ==
    CASE transaction_type = "IN" -> current_stock + q
      [] transaction_type = "OUT" -> current_stock - q
      [] transaction_type = "ADJUSTMENT" -> current_stock + q
      [] OTHER -> current_stock

\* the switch of updateStock: newStock
NewStock(transaction_type, current_stock, q) ==
    CASE transaction_type = "IN" -> current_stock + q
      [] transaction_type = "OUT" -> current_stock - q
      [] transaction_type = "ADJUSTMENT" -> q
      [] OTHER -> current_stock

\* mutant: an OUT keeps the resulting balance as its transactionQuantity
TransactionQuantity_outBalance(transaction_type, current_stock, q) ==
    CASE transaction_type = "IN" -> q
      [] transaction_type = "OUT" -> current_stock - q
      [] transaction_type = "ADJUSTMENT" -> q - current_stock
      [] OTHER -> q

\* the switch of updateStock: transactionQuantity after the switch
TransactionQuantity(transaction_type, current_stock, q) ==
    CASE transaction_type = "IN" -> q
      [] transaction_type = "OUT" -> 0 - q
      [] transaction_type = "ADJUSTMENT" -> q - current_stock
      [] OTHER -> q

\* mutant: the signed quantity is stored (Math.abs dropped)
LedgerQuantity_signed(transactionQuantity) == transactionQuantity

\* quantity written to the Transaction row
LedgerQuantity(transactionQuantity) == Abs(transactionQuantity)

\* mutant: the model-wide validator reservedNotGreaterThanCurrent is missing
InventoryValid_noReservedCheck(current_stock, reserved_stock) ==
    /\ current_stock >= 0
    /\ reserved_stock >= 0

\* Inventory model validators (field min: 0 and reservedNotGreaterThanCurrent)
InventoryValid(current_stock, reserved_stock) ==
    /\ current_stock >= 0
    /\ reserved_stock >= 0
    /\ ~(reserved_stock > current_stock)

\* Transaction model validator notZero
TransactionValid(quantity) == quantity # 0

\* location: sanitizeString(location) || inventory.location
NewLocation(location, old) == IF location = NoLocation THEN old ELSE location

(* ------------------------------- state -------------------------------- *)
\* no argument object has been built for SocketService.emitInventoryUpdate
NoPayload == [current_stock |-> 0, previous_stock |-> 0,
              transaction_type |-> "", quantity |-> 0]

IdleCall ==
    [pc |-> "idle", op |-> "none", productId |-> 0, quantity |-> 0,
     form |-> "integer", transaction_type |-> "", location |-> NoLocation,
     tx |-> "none", err |-> "none", msg |-> "", result |-> "none",
     queried |-> FALSE,
     snap |-> [current_stock |-> 0, reserved_stock |-> 0, location |-> NoLocation],
     newStock |-> 0, transactionQuantity |-> 0, newReserved |-> 0,
     payload |-> NoPayload,
     waited |-> 0,
     pre |-> <<>>]

Active(c) == call[c].pc \notin {"idle", "done"}

\* a finished call: only its outcome and its transaction's end state remain
Finished(tx, result) == [IdleCall EXCEPT !.pc = "done", !.tx = tx, !.result = result]

\* a call of `op` that threw after its last use of its inputs: only the
\* catch block is left to run
Thrown(op, err) == [IdleCall EXCEPT !.pc = "catch", !.op = op, !.err = err]

\* rows as ProductService.createProduct leaves them
InitialRow(s) == [current_stock |-> s, reserved_stock |-> 0, location |-> "A"]

RECURSIVE InitialLedger(_, _)
InitialLedger(ps, stock) ==
    IF ps = {} THEN <<>>
    ELSE LET p == CHOOSE x \in ps : \A y \in ps : x <= y
             rest == InitialLedger(ps \ {p}, stock)
         IN IF stock[p] > 0
            THEN <<[product_id |-> p, transaction_type |-> "IN",
                    quantity |-> stock[p]]>> \o rest
            ELSE rest

\* a Product row as ProductService.createProduct leaves it
NewProduct(minimum_stock) == [is_active |-> TRUE, minimum_stock |-> minimum_stock]

\* a socket that is not connected is in no room
Disconnected == [connected |-> FALSE, rooms |-> {}]

\* the server has started (SocketService.initialize has run), no client has
\* connected and nothing has been emitted
NoClients ==
    /\ sockets = [s \in Sockets |-> Disconnected]
    /\ fanout = <<>>

\* products created with the default minimum_stock
Init ==
    /\ \E stock \in [Products -> InitialStocks] :
          /\ inventory = [p \in Products |-> InitialRow(stock[p])]
          /\ transactions = InitialLedger(Products, stock)
    /\ rowLock = [p \in Products |-> 0]
    /\ call = [c \in Calls |-> IdleCall]
    /\ service \in Services
    /\ product = [p \in Products |-> NewProduct(0)]
    /\ NoClients

\* the snapshot a caller would take before a call
Snapshot(p) ==
    [row |-> IF p \in Products THEN inventory[p] ELSE <<>>,
     ledger |-> transactions]


(* ---------------------------- SocketService --------------------------- *)
\* the target of io.emit: every connected socket
Broadcast == "*"
RoleRoom(role) == "role_" \o role
ProductRoom(productId) == "product_" \o ToString(productId)
DashboardRoom == "dashboard"

\* the connected sockets an emit to `room` reaches
Receivers(room) ==
    {s \in Sockets : sockets[s].connected
                        /\ (room = Broadcast \/ room \in sockets[s].rooms)}

\* one io.emit / io.to(room).emit call and the sockets it is sent to
Emission(event, room, data) ==
    [event |-> event, room |-> room, data |-> data, to |-> Receivers(room)]

\* the emits of SocketService.emitStockUpdate(data)
StockUpdateEmissions(data) ==
    << Emission("inventory:stock_updated", Broadcast, data),
       Emission("product:stock_changed", ProductRoom(data.product_id), data),
       Emission("dashboard:inventory_changed", DashboardRoom, data) >>

\* mutant: the low-stock alert is sent with io.emit
LowStockAlertRooms_broadcast == << Broadcast >>

\* the rooms SocketService.emitLowStockAlert emits to, in order
LowStockAlertRooms == << RoleRoom("admin"), RoleRoom("manager") >>

\* the emits of SocketService.emitLowStockAlert(data)
LowStockAlertEmissions(data) ==
    [i \in 1 .. Len(LowStockAlertRooms) |->
        Emission("inventory:low_stock_alert", LowStockAlertRooms[i], data)]

\* the emits of SocketService.emitOutOfStockAlert(data)
OutOfStockAlertEmissions(data) ==
    << Emission("inventory:out_of_stock_alert", Broadcast, data) >>

\* the emits of SocketService.emitDashboardUpdate(data)
DashboardUpdateEmissions(data) ==
    << Emission("dashboard:stats_updated", DashboardRoom, data) >>

\* io.on('connection')
connection(s) ==
    /\ ~sockets[s].connected
    /\ sockets' = [sockets EXCEPT ![s] = [connected |-> TRUE, rooms |-> {}]]
    /\ UNCHANGED <<inventory, transactions, rowLock, call, service, product, fanout>>

\* socket.on('join_role_room'): the role is whatever the client sends
join_role_room(s, role) ==
    /\ sockets[s].connected
    /\ sockets' = [sockets EXCEPT ![s].rooms = @ \cup {RoleRoom(role)}]
    /\ UNCHANGED <<inventory, transactions, rowLock, call, service, product, fanout>>

\* socket.on('subscribe_product')
subscribe_product(s, productId) ==
    /\ sockets[s].connected
    /\ sockets' = [sockets EXCEPT ![s].rooms = @ \cup {ProductRoom(productId)}]
    /\ UNCHANGED <<inventory, transactions, rowLock, call, service, product, fanout>>

\* socket.on('join_dashboard')
join_dashboard(s) ==
    /\ sockets[s].connected
    /\ sockets' = [sockets EXCEPT ![s].rooms = @ \cup {DashboardRoom}]
    /\ UNCHANGED <<inventory, transactions, rowLock, call, service, product, fanout>>

\* socket.on('disconnect'): the socket has left every room
disconnect(s) ==
    /\ sockets[s].connected
    /\ sockets' = [sockets EXCEPT ![s] = Disconnected]
    /\ UNCHANGED <<inventory, transactions, rowLock, call, service, product, fanout>>

\* SocketService.emitStockUpdate(data); fanout holds the emits of the latest
\* fan-out
emitStockUpdate(data) ==
    /\ fanout' = StockUpdateEmissions(data)
    /\ UNCHANGED <<inventory, transactions, rowLock, call, service, product, sockets>>

\* SocketService.emitLowStockAlert(data)
emitLowStockAlert(data) ==
    /\ fanout' = LowStockAlertEmissions(data)
    /\ UNCHANGED <<inventory, transactions, rowLock, call, service, product, sockets>>

\* SocketService.emitOutOfStockAlert(data)
emitOutOfStockAlert(data) ==
    /\ fanout' = OutOfStockAlertEmissions(data)
    /\ UNCHANGED <<inventory, transactions, rowLock, call, service, product, sockets>>

(* --------------------------- ProductService --------------------------- *)
\* ProductService.deleteProduct(id): a soft delete, refused while the product
\* has stock
deleteProduct(id) ==
    /\ product' = IF id \in Products /\ ~(inventory[id].current_stock > 0)
                  THEN [product EXCEPT ![id].is_active = FALSE]
                  ELSE product
    /\ UNCHANGED <<inventory, transactions, rowLock, call, service, sockets, fanout>>

(* ---------------------------- updateStock ----------------------------- *)
\* sequelize.transaction(), validation, Inventory.findOne, the switch and the
\* model validation of inventory.update
updateStock(c, productId, quantity, form, transaction_type, location) ==
    /\ ~Active(c)
    /\ LET found == productId \in Products
           inv == inventory[productId]
           q == sanitizeNumber(quantity)
           ns == NewStock(transaction_type, inv.current_stock, q)
           tq == TransactionQuantity(transaction_type, inv.current_stock, q)
           base == [IdleCall EXCEPT !.op = "updateStock", !.productId = productId,
                       !.quantity = quantity, !.form = form,
                       !.transaction_type = transaction_type,
                       !.location = location, !.tx = "open",
                       !.pre = Snapshot(productId)]
           fail(e, m) == [base EXCEPT !.pc = "catch", !.err = e, !.msg = m]
           read == [base EXCEPT !.queried = TRUE]
           readFail(e, m) == [read EXCEPT !.pc = "catch", !.err = e, !.msg = m,
                                          !.snap = inv]
       IN call' = [call EXCEPT ![c] =
               IF ~validateRequired(quantity, form, transaction_type)
                    THEN fail("ValidationError", "Missing required fields")
               ELSE IF ~validateTransactionType(transaction_type)
                    THEN fail("ValidationError", "Invalid transaction type")
               ELSE IF ~validateNumeric(quantity, form)
                    THEN fail("ValidationError", "Invalid quantity")
               ELSE IF ~found
                    THEN [read EXCEPT !.pc = "catch", !.err = "NotFoundError",
                                      !.msg = "Inventory record not found"]
               ELSE IF InsufficientStock(transaction_type, inv.current_stock, q)
                    THEN readFail("BusinessLogicError",
                                  "Insufficient stock for this transaction")
               ELSE IF ns < 0
                    THEN readFail("BusinessLogicError", "Stock cannot be negative")
               ELSE IF ~InventoryValid(ns, inv.reserved_stock)
                    THEN readFail("SequelizeValidationError", "Validation error")
               ELSE [read EXCEPT !.pc = "update", !.snap = inv, !.newStock = ns,
                                 !.transactionQuantity = tq]]
    /\ UNCHANGED <<inventory, transactions, rowLock, service, product, sockets, fanout>>

\* inventory.update(..., { transaction }): the UPDATE takes the row lock
updateStock_update(c) ==
    /\ call[c].pc = "update" /\ call[c].op = "updateStock"
    /\ rowLock[call[c].productId] = 0
    /\ rowLock' = [rowLock EXCEPT ![call[c].productId] = c]
    /\ call' = [call EXCEPT ![c].pc = "create"]
    /\ UNCHANGED <<inventory, transactions, service, product, sockets, fanout>>

\* time passes while inventory.update(..., { transaction }) is blocked on the
\* row lock of another transaction: no lock_timeout is set and the await has no
\* timer
lock_wait(c) ==
    /\ call[c].pc = "update" /\ call[c].op = "updateStock"
    /\ rowLock[call[c].productId] # 0
    /\ call[c].waited <= LockWait
    /\ call' = [call EXCEPT ![c].waited = @ + 1]
    /\ UNCHANGED <<inventory, transactions, rowLock, service, product, sockets, fanout>>

\* Transaction.create(..., { transaction })
updateStock_create(c) ==
    /\ call[c].pc = "create"
    /\ call' = [call EXCEPT ![c] =
          IF TransactionValid(LedgerQuantity(call[c].transactionQuantity))
          THEN [@ EXCEPT !.pc = "commit"]
          ELSE [@ EXCEPT !.pc = "catch", !.err = "SequelizeValidationError",
                         !.msg = "Quantity cannot be zero"]]
    /\ UNCHANGED <<inventory, transactions, rowLock, service, product, sockets, fanout>>

\* mutant: the signed transactionQuantity is written instead of newStock
CommittedRow_wrongVariable(row, k) ==
    [row EXCEPT !.current_stock = k.transactionQuantity]

\* mutant: the UPDATE of updateStock also clears reserved_stock
CommittedRow_resetsReserved(row, k) ==
    [row EXCEPT !.current_stock = k.newStock, !.reserved_stock = 0]

\* the row the transaction's UPDATE leaves: only the changed columns are set
CommittedRow(row, k) ==
    [row EXCEPT !.current_stock = k.newStock,
                !.location = IF NewLocation(k.location, k.snap.location) = k.snap.location
                             THEN row.location
                             ELSE NewLocation(k.location, k.snap.location)]

\* mutant: the INSERT replaces the newest row of the table
Transaction_create_overwritesLast(ledger, e) ==
    IF ledger = <<>> THEN <<e>> ELSE [ledger EXCEPT ![Len(ledger)] = e]

\* Transaction.create(...): one INSERT, the new row gets the next id
Transaction_create(ledger, e) == Append(ledger, e)

\* mutant: every Transaction row is filed under product 1
LedgerEntry_fixedProduct(k) ==
    [product_id |-> 1, transaction_type |-> k.transaction_type,
     quantity |-> LedgerQuantity(k.transactionQuantity)]

\* the Transaction row the INSERT adds
LedgerEntry(k) ==
    [product_id |-> k.productId, transaction_type |-> k.transaction_type,
     quantity |-> LedgerQuantity(k.transactionQuantity)]

\* dbTransaction.commit()
updateStock_commit(c) ==
    /\ call[c].pc = "commit"
    /\ LET p == call[c].productId IN
        /\ inventory' = [inventory EXCEPT ![p] = CommittedRow(@, call[c])]
        /\ transactions' = Transaction_create(transactions, LedgerEntry(call[c]))
        /\ rowLock' = [rowLock EXCEPT ![p] = 0]
    /\ call' = [call EXCEPT ![c].pc = "reread", ![c].tx = "committed"]
    /\ UNCHANGED <<service, product, sockets, fanout>>

\* this.getInventoryByProductId(productId) after the commit
updateStock_reread(c) ==
    /\ call[c].pc = "reread" /\ call[c].op = "updateStock"
    /\ \E dbOk \in BOOLEAN :
         call' = [call EXCEPT ![c] =
            IF ~dbOk THEN [@ EXCEPT !.pc = "catch", !.err = "Error"]
            ELSE IF service = "sockets" THEN [@ EXCEPT !.pc = "emit"]
            ELSE Finished(@.tx, "ok")]
    /\ UNCHANGED <<inventory, transactions, rowLock, service, product, sockets, fanout>>

\* the Inventory instance after inventory.update(...): Model#update sets the
\* new values on the instance it is called on
InstanceAfterUpdate(k) ==
    [k.snap EXCEPT !.current_stock = k.newStock,
                   !.location = NewLocation(k.location, k.snap.location)]

\* the argument object built for SocketService.emitInventoryUpdate
InventoryUpdatePayload(k) ==
    [current_stock |-> k.newStock,
     previous_stock |-> InstanceAfterUpdate(k).current_stock,
     transaction_type |-> k.transaction_type,
     quantity |-> LedgerQuantity(k.transactionQuantity)]

\* the alert and dashboard emits that follow emitInventoryUpdate; the alert
\* methods are called with (productId, {...}), so their data is productId
AlertEmissions(k) ==
    LET minimum_stock == product[k.productId].minimum_stock IN
    (IF k.newStock <= minimum_stock /\ k.newStock > 0
        THEN LowStockAlertEmissions(k.productId) ELSE <<>>)
    \o (IF k.newStock = 0 THEN OutOfStockAlertEmissions(k.productId) ELSE <<>>)
    \o DashboardUpdateEmissions("undefined")

\* SocketService.emitInventoryUpdate(...) and the emits after it: the argument
\* object is built, then the call of the undefined method throws
updateStock_emit(c) ==
    /\ call[c].pc = "emit" /\ call[c].op = "updateStock"
    /\ IF "emitInventoryUpdate" \in SocketServiceMethods
       THEN /\ call' = [call EXCEPT ![c] = Finished(@.tx, "ok")]
            /\ fanout' = AlertEmissions(call[c])
       ELSE /\ call' = [call EXCEPT ![c] =
                          [@ EXCEPT !.pc = "catch", !.err = "TypeError",
                                    !.payload = InventoryUpdatePayload(call[c])]]
            /\ UNCHANGED fanout
    /\ UNCHANGED <<inventory, transactions, rowLock, service, product, sockets>>

\* what the caller sees after the catch block
CatchResult(tx, err) ==
    IF tx = "committed" THEN "Error"
    ELSE IF err \in RethrownErrors THEN err ELSE "Error"

\* catch (error) { await dbTransaction.rollback(); ... }
updateStock_catch(c) ==
    /\ call[c].pc = "catch" /\ call[c].op = "updateStock"
    /\ rowLock' = [q \in Products |-> IF rowLock[q] = c THEN 0 ELSE rowLock[q]]
    /\ call' = [call EXCEPT ![c] =
                    Finished(IF call[c].tx = "open" THEN "rolledback" ELSE call[c].tx,
                             CatchResult(call[c].tx, call[c].err))]
    /\ UNCHANGED <<inventory, transactions, service, product, sockets, fanout>>

(* ------------------- reserveStock / releaseStock ---------------------- *)
\* Inventory.findOne, the availability check and the model validation
reserveStock(c, productId, quantity) ==
    /\ ~Active(c)
    /\ LET found == productId \in Products
           inv == inventory[productId]
           availableStock == inv.current_stock - inv.reserved_stock
           nr == inv.reserved_stock + quantity
           base == [IdleCall EXCEPT !.op = "reserveStock", !.productId = productId,
                       !.quantity = quantity, !.pre = Snapshot(productId)]
           fail == [base EXCEPT !.pc = "catch", !.err = "Error"]
       IN call' = [call EXCEPT ![c] =
             IF ~found THEN fail
             ELSE IF quantity > availableStock THEN fail
             ELSE IF ~InventoryValid(inv.current_stock, nr) THEN fail
             ELSE [base EXCEPT !.pc = "update", !.snap = inv, !.newReserved = nr]]
    /\ UNCHANGED <<inventory, transactions, rowLock, service, product, sockets, fanout>>

\* Inventory.findOne, the reserved check and the model validation
releaseStock(c, productId, quantity) ==
    /\ ~Active(c)
    /\ LET found == productId \in Products
           inv == inventory[productId]
           nr == inv.reserved_stock - quantity
           base == [IdleCall EXCEPT !.op = "releaseStock", !.productId = productId,
                       !.quantity = quantity, !.pre = Snapshot(productId)]
           fail == [base EXCEPT !.pc = "catch", !.err = "Error"]
       IN call' = [call EXCEPT ![c] =
             IF ~found THEN fail
             ELSE IF quantity > inv.reserved_stock THEN fail
             ELSE IF ~InventoryValid(inv.current_stock, nr) THEN fail
             ELSE [base EXCEPT !.pc = "update", !.snap = inv, !.newReserved = nr]]
    /\ UNCHANGED <<inventory, transactions, rowLock, service, product, sockets, fanout>>

\* inventory.update({ reserved_stock }) outside any transaction, then the
\* getInventoryByProductId re-read
reserved_update(c) ==
    /\ call[c].pc = "update" /\ call[c].op \in {"reserveStock", "releaseStock"}
    /\ rowLock[call[c].productId] = 0
    /\ inventory' = [inventory EXCEPT ![call[c].productId].reserved_stock =
                        IF call[c].newReserved = call[c].snap.reserved_stock
                        THEN @ ELSE call[c].newReserved]
    /\ \E dbOk \in BOOLEAN :
         call' = [call EXCEPT ![c] =
                    IF dbOk THEN Finished("none", "ok")
                    ELSE Thrown(@.op, "Error")]
    /\ UNCHANGED <<transactions, rowLock, service, product, sockets, fanout>>

\* catch (error) { throw new Error(`Failed to ...: ${error.message}`) } of
\* reserveStock, releaseStock and updateLocation
plain_catch(c) ==
    /\ call[c].pc = "catch"
    /\ call[c].op \in {"reserveStock", "releaseStock", "updateLocation"}
    /\ call' = [call EXCEPT ![c] = Finished("none", "Error")]
    /\ UNCHANGED <<inventory, transactions, rowLock, service, product, sockets, fanout>>

(* --------------------------- updateLocation --------------------------- *)
\* Inventory.findOne and location.trim()
updateLocation(c, productId, location) ==
    /\ ~Active(c)
    /\ LET found == productId \in Products
           inv == inventory[productId]
           base == [IdleCall EXCEPT !.op = "updateLocation", !.productId = productId,
                       !.location = location, !.pre = Snapshot(productId)]
           fail == Thrown("updateLocation", "Error")
       IN call' = [call EXCEPT ![c] =
             IF ~found THEN fail
             ELSE IF location = NoLocation THEN fail
             ELSE IF ~InventoryValid(inv.current_stock, inv.reserved_stock)
                  THEN fail
             ELSE [base EXCEPT !.pc = "update", !.snap = inv]]
    /\ UNCHANGED <<inventory, transactions, rowLock, service, product, sockets, fanout>>

\* inventory.update({ location }), the re-read and the socket emits
updateLocation_update(c) ==
    /\ call[c].pc = "update" /\ call[c].op = "updateLocation"
    /\ rowLock[call[c].productId] = 0
    /\ inventory' = [inventory EXCEPT ![call[c].productId].location =
                        IF call[c].location = call[c].snap.location
                        THEN @ ELSE call[c].location]
    /\ \E dbOk \in BOOLEAN :
         call' = [call EXCEPT ![c] =
                    IF ~dbOk THEN Thrown(@.op, "Error")
                    ELSE IF service = "sockets"
                            /\ "emitInventoryLocationUpdate" \notin SocketServiceMethods
                         THEN Thrown(@.op, "TypeError")
                    ELSE Finished("none", "ok")]
    /\ UNCHANGED <<transactions, rowLock, service, product, sockets, fanout>>

(* ------------------------- TransactionService ------------------------- *)
\* TransactionService.createTransaction(transactionData), reached through
\* POST /api/transactions: validation, Product.findByPk, Transaction.create and
\* the getTransactionById re-read; no Inventory row is read or written
createTransaction(c, product_id, quantity, form, transaction_type) ==
    /\ ~Active(c)
    /\ LET found == product_id \in Products
           e == [product_id |-> product_id, transaction_type |-> transaction_type,
                 quantity |-> sanitizeNumber(quantity)]
           invalid == \/ ~validateRequired(quantity, form, transaction_type)
                      \/ ~validateTransactionType(transaction_type)
                      \/ ~validateNumeric(quantity, form)
           inserted == ~invalid /\ found /\ TransactionValid(e.quantity)
       IN /\ transactions' = IF inserted THEN Transaction_create(transactions, e)
                                         ELSE transactions
          /\ \E dbOk \in BOOLEAN :
               call' = [call EXCEPT ![c] =
                  IF invalid THEN Finished("none", "ValidationError")
                  ELSE IF ~found THEN Finished("none", "NotFoundError")
                  ELSE IF ~inserted \/ ~dbOk THEN Finished("none", "Error")
                  ELSE Finished("none", "ok")]
    /\ UNCHANGED <<inventory, rowLock, service, product, sockets, fanout>>

(* --------------------------- specifications --------------------------- *)
\* movements whose inserts are still pending
InFlightInserts == Cardinality({c \in Calls : Active(c) /\ call[c].op = "updateStock"})

\* the bounds of the model: the ledger holds at most MaxLedger entries and
\* no movement takes a stock above MaxStock
WithinBounds(p, q, t) ==
    /\ Len(transactions) + InFlightInserts < MaxLedger
    /\ (p \in Products /\ t = "IN") => inventory[p].current_stock + q <= MaxStock
    /\ (t = "ADJUSTMENT") => q <= MaxStock

\* Spec: calls arrive one after another (a single caller)
Caller == CHOOSE c \in Calls : \A d \in Calls : c <= d
Targets == {1, MissingProduct}

Next ==
    \/ \E p \in Targets, q \in QtyInputs, t \in TypeInputs, l \in {NoLocation, "B"} :
          WithinBounds(p, q, t) /\ updateStock(Caller, p, q, "integer", t, l)
    \/ updateStock_update(Caller)
    \/ updateStock_create(Caller)
    \/ updateStock_commit(Caller)
    \/ updateStock_reread(Caller)
    \/ updateStock_emit(Caller)
    \/ updateStock_catch(Caller)
    \/ \E p \in Targets, q \in QtyInputs : reserveStock(Caller, p, q)
    \/ \E p \in Targets, q \in QtyInputs : releaseStock(Caller, p, q)
    \/ reserved_update(Caller)
    \/ \E p \in Targets, l \in Locations \cup {NoLocation} : updateLocation(Caller, p, l)
    \/ updateLocation_update(Caller)
    \/ plain_catch(Caller)

Spec == Init /\ [][Next]_vars

\* SpecConc: two callers whose updateStock calls on product 1 overlap freely
NextConc ==
    \E c \in Calls :
       \/ \E q \in 1 .. MaxQty, t \in TRANSACTION_TYPES :
             WithinBounds(1, q, t) /\ updateStock(c, 1, q, "integer", t, NoLocation)
       \/ updateStock_update(c)
       \/ updateStock_create(c)
       \/ updateStock_commit(c)
       \/ updateStock_reread(c)
       \/ updateStock_emit(c)
       \/ updateStock_catch(c)

SpecConc == Init /\ [][NextConc]_vars

\* SpecTwoOut: product 1 was created with a stock of 10 and each of the two
\* callers issues one OUT of 6
InitTwoOut ==
    /\ inventory = [p \in Products |-> InitialRow(IF p = 1 THEN 10 ELSE 0)]
    /\ transactions = InitialLedger(Products, [p \in Products |-> IF p = 1 THEN 10 ELSE 0])
    /\ rowLock = [p \in Products |-> 0]
    /\ call = [c \in Calls |-> IdleCall]
    /\ service \in Services
    /\ product = [p \in Products |-> NewProduct(0)]
    /\ NoClients

NextTwoOut ==
    \E c \in Calls :
       \/ call[c].pc = "idle" /\ updateStock(c, 1, 6, "integer", "OUT", NoLocation)
       \/ updateStock_update(c)
       \/ updateStock_create(c)
       \/ updateStock_commit(c)
       \/ updateStock_reread(c)
       \/ updateStock_emit(c)
       \/ updateStock_catch(c)

SpecTwoOut == InitTwoOut /\ [][NextTwoOut]_vars

\* SpecValidate: one caller sends updateStock requests of every shape: the
\* quantity an integer, a fraction or missing, the transaction_type valid,
\* unknown or missing
NextValidate ==
    \/ \E p \in Targets, q \in QtyInputs, f \in QtyForms,
          t \in TypeInputs \cup {NoType} :
          /\ f = "missing" => q = 0
          /\ WithinBounds(p, q, t)
          /\ updateStock(Caller, p, q, f, t, NoLocation)
    \/ updateStock_update(Caller)
    \/ updateStock_create(Caller)
    \/ updateStock_commit(Caller)
    \/ updateStock_reread(Caller)
    \/ updateStock_emit(Caller)
    \/ updateStock_catch(Caller)

SpecValidate == Init /\ [][NextValidate]_vars

\* SpecProduct: one caller moving the stock of product 1 while products, which
\* were created with any minimum_stock, are soft-deleted
InitProduct ==
    /\ \E stock \in [Products -> InitialStocks] :
          /\ inventory = [p \in Products |-> InitialRow(stock[p])]
          /\ transactions = InitialLedger(Products, stock)
    /\ rowLock = [p \in Products |-> 0]
    /\ call = [c \in Calls |-> IdleCall]
    /\ service \in Services
    /\ \E m \in MinimumStocks : product = [p \in Products |-> NewProduct(m)]
    /\ NoClients

NextProduct ==
    \/ \E q \in 1 .. MaxQty, t \in TRANSACTION_TYPES :
          WithinBounds(1, q, t) /\ updateStock(Caller, 1, q, "integer", t, NoLocation)
    \/ updateStock_update(Caller)
    \/ updateStock_create(Caller)
    \/ updateStock_commit(Caller)
    \/ updateStock_reread(Caller)
    \/ updateStock_emit(Caller)
    \/ updateStock_catch(Caller)
    \/ \E id \in ProductIds : deleteProduct(id)

SpecProduct == InitProduct /\ [][NextProduct]_vars

\* SpecSocket: clients connect, join rooms and leave while the fan-out methods
\* of SocketService are called
InitSocket ==
    /\ inventory = [p \in Products |-> InitialRow(0)]
    /\ transactions = <<>>
    /\ rowLock = [p \in Products |-> 0]
    /\ call = [c \in Calls |-> IdleCall]
    /\ service = "sockets"
    /\ product = [p \in Products |-> NewProduct(0)]
    /\ NoClients

NextSocket ==
    \/ \E s \in Sockets :
          \/ connection(s)
          \/ \E role \in Roles : join_role_room(s, role)
          \/ subscribe_product(s, 1)
          \/ join_dashboard(s)
          \/ disconnect(s)
    \/ \E p \in Products :
          \/ emitStockUpdate([product_id |-> p])
          \/ emitLowStockAlert([product_id |-> p])
          \/ emitOutOfStockAlert([product_id |-> p])

SpecSocket == InitSocket /\ [][NextSocket]_vars

\* SpecLedger: one caller uses the operations that write the transactions
\* table while product 1 may be soft-deleted
NextLedger ==
    \/ \E q \in 1 .. MaxQty, t \in TRANSACTION_TYPES :
          WithinBounds(1, q, t) /\ updateStock(Caller, 1, q, "integer", t, NoLocation)
    \/ updateStock_update(Caller)
    \/ updateStock_create(Caller)
    \/ updateStock_commit(Caller)
    \/ updateStock_reread(Caller)
    \/ updateStock_emit(Caller)
    \/ updateStock_catch(Caller)
    \/ \E p \in Targets, q \in QtyInputs, t \in TypeInputs :
          /\ Len(transactions) + InFlightInserts < MaxLedger
          /\ createTransaction(Caller, p, q, "integer", t)
    \/ deleteProduct(1)

SpecLedger == Init /\ [][NextLedger]_vars

\* SpecTwoProducts: two callers whose updateStock calls overlap freely, caller
\* c always moving the stock of product c
NextTwoProducts ==
    \E c \in Calls \cap Products :
       \/ \E q \in 1 .. MaxQty, t \in TRANSACTION_TYPES :
             WithinBounds(c, q, t) /\ updateStock(c, c, q, "integer", t, NoLocation)
       \/ updateStock_update(c)
       \/ updateStock_create(c)
       \/ updateStock_commit(c)
       \/ updateStock_reread(c)
       \/ updateStock_emit(c)
       \/ updateStock_catch(c)

SpecTwoProducts == Init /\ [][NextTwoProducts]_vars

\* SpecReserveRace: caller 1 takes stock of product 1 out or adjusts it while
\* caller 2 reserves stock of the same product
NextReserveRace ==
    \/ \E q \in 1 .. MaxQty, t \in {"OUT", "ADJUSTMENT"} :
          WithinBounds(1, q, t) /\ updateStock(1, 1, q, "integer", t, NoLocation)
    \/ updateStock_update(1)
    \/ updateStock_create(1)
    \/ updateStock_commit(1)
    \/ updateStock_reread(1)
    \/ updateStock_emit(1)
    \/ updateStock_catch(1)
    \/ \E q \in 1 .. MaxQty : reserveStock(2, 1, q)
    \/ reserved_update(2)
    \/ plain_catch(2)

SpecReserveRace == Init /\ [][NextReserveRace]_vars

\* SpecContention: two callers move the stock of product 1 while the clock
\* ticks for a call that is blocked on the row lock
NextContention ==
    \E c \in Calls :
       \/ \E q \in 1 .. MaxQty, t \in TRANSACTION_TYPES :
             WithinBounds(1, q, t) /\ updateStock(c, 1, q, "integer", t, NoLocation)
       \/ updateStock_update(c)
       \/ lock_wait(c)
       \/ updateStock_create(c)
       \/ updateStock_commit(c)
       \/ updateStock_reread(c)
       \/ updateStock_emit(c)
       \/ updateStock_catch(c)

SpecContention == Init /\ [][NextContention]_vars

(* ------------------------------ helpers ------------------------------- *)
Last(seq) == seq[Len(seq)]

\* call c finishes in this step
Finishes(c) == Active(c) /\ call'[c].pc = "done"

\* call c is an updateStock movement that passed validation and found its row
Movement(c) ==
    /\ call[c].op = "updateStock"
    /\ call[c].productId \in Products
    /\ call[c].err \notin {"ValidationError", "NotFoundError"}

(* ------------------------------- claims ------------------------------- *)

\* C1: after any sequence of updateStock, reserveStock, releaseStock and
\* updateLocation calls, successful or not, the persisted current_stock of
\* every product is >= 0.
C1_CurrentStockNonNegative ==
    \A p \in Products : inventory[p].current_stock >= 0

\* an OUT movement has committed and emptied the stock of product 1
C1_Witness ==
    /\ inventory[1].current_stock = 0
    /\ Len(transactions) > 0
    /\ Last(transactions).transaction_type = "OUT"
    /\ call[Caller].pc = "done"

(* ------------------------- ledger replay (C2) ------------------------- *)
\* the ledger entries of product p, in insertion order
RECURSIVE LedgerOf(_, _)
LedgerOf(seq, p) ==
    IF seq = <<>> THEN <<>>
    ELSE LET rest == LedgerOf(SubSeq(seq, 1, Len(seq) - 1), p)
         IN IF Last(seq).product_id = p THEN Append(rest, Last(seq)) ELSE rest

\* one replay step from the entry's kind and stored quantity alone; `reading`
\* is how an ADJUSTMENT entry is applied: added, subtracted, or taken as target
ReplayStep(balance, e, reading) ==
    CASE e.transaction_type = "IN" -> balance + e.quantity
      [] e.transaction_type = "OUT" -> balance - e.quantity
      [] e.transaction_type = "ADJUSTMENT" ->
            CASE reading = "add" -> balance + e.quantity
              [] reading = "subtract" -> balance - e.quantity
              [] OTHER -> e.quantity

RECURSIVE Replay(_, _)
Replay(seq, reading) ==
    IF seq = <<>> THEN 0
    ELSE ReplayStep(Replay(SubSeq(seq, 1, Len(seq) - 1), reading), Last(seq), reading)

\* C2: replaying a product's ledger from a zero balance, from each entry's kind
\* and stored quantity alone, yields the stored current_stock. Stated for all
\* three ways an ADJUSTMENT entry could be replayed at once: the claim needs
\* one of them to give the stored balance.
C2_ReplayEqualsBalance ==
    \A p \in Products :
       \E reading \in {"add", "subtract", "target"} :
          Replay(LedgerOf(transactions, p), reading) = inventory[p].current_stock

\* C3: every successful updateStock call adds exactly one ledger entry for its
\* product, in the commit that writes the balance, and the entry's quantity is
\* the absolute difference between the balance before and after the call.
C3_OneEntryPerSuccess ==
    [][ /\ \A c \in Calls :
             (call[c].op = "updateStock" /\ Finishes(c) /\ call'[c].result = "ok") =>
                LET p == call[c].productId
                    before == call[c].pre
                IN /\ call[c].tx = "committed"
                   /\ Len(transactions') = Len(before.ledger) + 1
                   /\ SubSeq(transactions', 1, Len(before.ledger)) = before.ledger
                   /\ Last(transactions').product_id = p
                   /\ Last(transactions').quantity =
                         Abs(inventory'[p].current_stock - before.row.current_stock)
        /\ \A p \in Products :
             (inventory'[p].current_stock # inventory[p].current_stock) =>
                /\ transactions' = Append(transactions, Last(transactions'))
                /\ Last(transactions').product_id = p
                /\ Last(transactions').quantity =
                      Abs(inventory'[p].current_stock - inventory[p].current_stock)
      ]_vars

\* a movement has committed and its caller is about to be told it succeeded
C3_Witness ==
    /\ call[Caller].op = "updateStock"
    /\ call[Caller].pc = "reread"
    /\ service = "plain"
    /\ call[Caller].newStock # call[Caller].snap.current_stock

\* C4: whenever updateStock is rejected or throws, for any reason, the balance
\* row and the ledger are what they were before the call.
C4_FailureLeavesStateUnchanged ==
    [][ \A c \in Calls :
          (call[c].op = "updateStock" /\ Finishes(c) /\ call'[c].result # "ok") =>
             /\ transactions' = call[c].pre.ledger
             /\ call[c].productId \in Products =>
                   inventory'[call[c].productId] = call[c].pre.row
      ]_vars

\* C5: an OUT movement whose quantity exceeds the current_stock fails with
\* BusinessLogicError 'Insufficient stock' and leaves balance and ledger unchanged.
C5_OutBeyondStockRejected ==
    [][ \A c \in Calls :
          ( /\ Movement(c)
            /\ call[c].transaction_type = "OUT"
            /\ call[c].quantity > call[c].pre.row.current_stock
            /\ Active(c) ) =>
             /\ call[c].pc = "catch"
             /\ call[c].err = "BusinessLogicError"
             /\ call[c].msg = "Insufficient stock for this transaction"
             /\ call'[c].pc = "done" => call'[c].result = "BusinessLogicError"
             /\ inventory' = inventory
             /\ transactions' = transactions
             /\ inventory[call[c].productId] = call[c].pre.row
             /\ transactions = call[c].pre.ledger
      ]_vars

\* an OUT of more than the stock has been raised and is in the catch block
C5_Witness ==
    /\ call[Caller].op = "updateStock"
    /\ call[Caller].transaction_type = "OUT"
    /\ call[Caller].pc = "catch"
    /\ call[Caller].productId = 1
    /\ call[Caller].quantity > inventory[1].current_stock
    /\ inventory[1].current_stock > 0

\* C8: after any sequential series of updateStock, reserveStock and
\* releaseStock calls, 0 <= reserved_stock <= current_stock.
C8_ReservedWithinCurrent ==
    \A p \in Products :
       /\ inventory[p].reserved_stock >= 0
       /\ inventory[p].reserved_stock <= inventory[p].current_stock

\* all of a positive stock is reserved and a movement has since been attempted
C8_Witness ==
    /\ inventory[1].reserved_stock > 0
    /\ inventory[1].reserved_stock = inventory[1].current_stock
    /\ call[Caller].op = "updateStock"
    /\ call[Caller].transaction_type \in {"OUT", "ADJUSTMENT"}
    /\ call[Caller].err = "SequelizeValidationError"

\* C9: once updateStock has committed, a failure of a post-commit step does
\* not turn the outcome into an error: the caller still receives success.
C9_CommittedCallSucceeds ==
    [][ \A c \in Calls :
          (call[c].op = "updateStock" /\ call[c].tx = "committed" /\ Finishes(c)) =>
             call'[c].result = "ok"
      ]_vars

\* C10: an ADJUSTMENT with quantity q on a balance c commits current_stock = q
\* and a ledger entry of kind ADJUSTMENT and quantity |q - c|.
C10_AdjustmentIsAbsoluteTarget ==
    [][ \A c \in Calls :
          ( /\ call[c].op = "updateStock"
            /\ call[c].transaction_type = "ADJUSTMENT"
            /\ call[c].tx = "open"
            /\ call'[c].tx = "committed" ) =>
             LET p == call[c].productId IN
             /\ inventory'[p].current_stock = call[c].quantity
             /\ transactions' = Append(transactions,
                   [product_id |-> p, transaction_type |-> "ADJUSTMENT",
                    quantity |-> Abs(call[c].quantity - inventory[p].current_stock)])
      ]_vars

\* an ADJUSTMENT to a lower target has just committed
C10_Witness ==
    /\ call[Caller].op = "updateStock"
    /\ call[Caller].transaction_type = "ADJUSTMENT"
    /\ call[Caller].tx = "committed"
    /\ call[Caller].quantity < call[Caller].snap.current_stock
    /\ inventory[1].current_stock = call[Caller].quantity

\* C6: two concurrent OUT calls of 6 against a stock of 10: exactly one goes
\* through (commits), the other fails with the business-rule error, the final
\* current_stock is 4 and exactly one new ledger entry exists.
C6_ExactlyOneOutSucceeds ==
    (\A c \in Calls : call[c].pc = "done") =>
       /\ \E c \in Calls :
             /\ call[c].tx = "committed"
             /\ \A d \in Calls \ {c} :
                   call[d].tx = "rolledback" /\ call[d].result = "BusinessLogicError"
       /\ inventory[1].current_stock = 4
       /\ Len(transactions) = 2

\* C7: concurrent updateStock calls on one product are serialized on the
\* balance row: a call commits a balance computed from the balance committed
\* just before it, never from a stale read.
C7_CommitFromLatestBalance ==
    [][ \A c \in Calls :
          (call[c].op = "updateStock" /\ call[c].tx = "open" /\ call'[c].tx = "committed") =>
             call[c].snap.current_stock = inventory[call[c].productId].current_stock
      ]_vars

(* --------------------- helpers for C11 .. C20 ------------------------- *)
\* call c starts in this step: its handler has read its input and is running
Starts(c, op) ==
    /\ ~Active(c)
    /\ call'[c].pc \notin {"idle", "done"}
    /\ call'[c].op = op

\* a request the contract calls invalid: quantity zero, negative, non-integer
\* or missing, or a transaction_type outside IN, OUT, ADJUSTMENT
InvalidRequest(k) ==
    \/ k.form # "integer"
    \/ k.quantity <= 0
    \/ k.transaction_type \notin {"IN", "OUT", "ADJUSTMENT"}

\* the names of the events in a sequence of emissions
Events(seq) == {seq[i].event : i \in 1 .. Len(seq)}

\* C11: an IN with quantity q on a balance c commits c + q, an OUT with q <= c
\* commits c - q, and in both cases the ledger entry appended by the commit
\* stores the kind and the unsigned magnitude q.
C11_InAndOutArithmetic ==
    [][ \A c \in Calls :
          ( /\ call[c].op = "updateStock"
            /\ call[c].transaction_type \in {"IN", "OUT"}
            /\ call[c].tx = "open"
            /\ call'[c].tx = "committed" ) =>
             LET p == call[c].productId
                 q == call[c].quantity
                 cur == call[c].pre.row.current_stock
             IN /\ call[c].transaction_type = "IN" =>
                      inventory'[p].current_stock = cur + q
                /\ call[c].transaction_type = "OUT" =>
                      q <= cur /\ inventory'[p].current_stock = cur - q
                /\ transactions' = Append(transactions,
                      [product_id |-> p,
                       transaction_type |-> call[c].transaction_type,
                       quantity |-> q])
      ]_vars

\* an OUT of part of a stock that an earlier IN had raised has just committed
C11_Witness ==
    /\ call[Caller].op = "updateStock"
    /\ call[Caller].transaction_type = "OUT"
    /\ call[Caller].pc = "reread"
    /\ call[Caller].quantity < call[Caller].snap.current_stock
    /\ inventory[1].current_stock =
          call[Caller].snap.current_stock - call[Caller].quantity
    /\ Len(transactions) = 2
    /\ transactions[1].transaction_type = "IN"
    /\ Last(transactions).quantity = call[Caller].quantity

\* C12: updateStock rejects with ValidationError every request whose quantity
\* is zero, negative, non-integer or missing, or whose transaction_type is not
\* IN, OUT or ADJUSTMENT, and it does so without querying the balance row and
\* without changing the balance or the ledger.
C12_InvalidRequestRejected ==
    [][ \A c \in Calls :
          /\ (Starts(c, "updateStock") /\ InvalidRequest(call'[c])) =>
                /\ call'[c].pc = "catch"
                /\ call'[c].err = "ValidationError"
                /\ ~call'[c].queried
                /\ inventory' = inventory
                /\ transactions' = transactions
          /\ (Active(c) /\ call[c].op = "updateStock" /\ InvalidRequest(call[c])) =>
                /\ call[c].pc = "catch"
                /\ ~call[c].queried
                /\ call'[c].pc = "done" =>
                      call'[c].result = "ValidationError" /\ call'[c].tx = "rolledback"
                /\ inventory' = inventory
                /\ transactions' = transactions
                /\ transactions = call[c].pre.ledger
      ]_vars

\* a request for 1.5 units with a valid transaction_type has been rejected
C12_Witness ==
    /\ call[Caller].op = "updateStock"
    /\ call[Caller].form = "fraction"
    /\ call[Caller].quantity = 1
    /\ call[Caller].transaction_type \in TRANSACTION_TYPES
    /\ call[Caller].pc = "catch"
    /\ call[Caller].err = "ValidationError"
    /\ ~call[Caller].queried

\* C13: updateStock with a valid request on a product id that has no inventory
\* row fails with NotFoundError, creates no inventory row and no ledger entry,
\* and its database transaction ends rolled back.
C13_MissingRowIsNotFound ==
    [][ \A c \in Calls :
          ( /\ Active(c)
            /\ call[c].op = "updateStock"
            /\ call[c].productId \notin Products
            /\ ~InvalidRequest(call[c]) ) =>
             /\ call[c].pc = "catch"
             /\ call[c].err = "NotFoundError"
             /\ call[c].tx = "open"
             /\ call'[c].pc = "done" =>
                   call'[c].result = "NotFoundError" /\ call'[c].tx = "rolledback"
             /\ DOMAIN inventory' = Products
             /\ inventory' = inventory
             /\ transactions' = transactions
             /\ transactions = call[c].pre.ledger
      ]_vars

\* a valid movement on the missing product is in the catch block
C13_Witness ==
    /\ call[Caller].op = "updateStock"
    /\ call[Caller].productId = MissingProduct
    /\ call[Caller].transaction_type = "IN"
    /\ call[Caller].quantity > 0
    /\ call[Caller].queried
    /\ call[Caller].pc = "catch"
    /\ call[Caller].err = "NotFoundError"

\* C14: updateStock treats an inactive (soft-deleted) product like a missing
\* one: a valid movement on it fails with NotFoundError, and no commit changes
\* the balance or the ledger of a product that is inactive.
C14_InactiveProductIsNotFound ==
    [][ \A c \in Calls :
          /\ ( /\ Starts(c, "updateStock")
               /\ call'[c].productId \in Products
               /\ ~InvalidRequest(call'[c])
               /\ ~product[call'[c].productId].is_active ) =>
                call'[c].pc = "catch" /\ call'[c].err = "NotFoundError"
          /\ ( /\ call[c].op = "updateStock"
               /\ call[c].tx = "open"
               /\ call'[c].tx = "committed" ) =>
                product[call[c].productId].is_active
      ]_vars

\* C15: when a committed movement with new balance n returns and the product's
\* minimum_stock is m, a low-stock alert has been emitted iff 0 < n <= m, an
\* out-of-stock alert iff n = 0, and never both. Stated for the service that
\* has the socket calls.
C15_AlertsMatchBalance ==
    [][ \A c \in Calls :
          ( /\ service = "sockets"
            /\ call[c].op = "updateStock"
            /\ call[c].tx = "committed"
            /\ Finishes(c) ) =>
             LET n == call[c].newStock
                 m == product[call[c].productId].minimum_stock
                 low == "inventory:low_stock_alert" \in Events(fanout')
                 out == "inventory:out_of_stock_alert" \in Events(fanout')
             IN /\ low <=> (0 < n /\ n <= m)
                /\ out <=> (n = 0)
                /\ ~(low /\ out)
      ]_vars

\* C16: every committed updateStock movement is followed by a stock-changed
\* event sent to all connected clients, to the room of its product and to the
\* dashboard room: the event has been emitted by the time the call returns,
\* and no call emits while its transaction is still open. Stated for the
\* service that has the socket calls.
C16_StockEventAfterCommit ==
    [][ \A c \in Calls :
          /\ ( /\ service = "sockets"
               /\ call[c].op = "updateStock"
               /\ call[c].tx = "committed"
               /\ Finishes(c) ) =>
                \E i, j, k \in 1 .. Len(fanout') :
                   /\ fanout'[i].room = Broadcast
                   /\ fanout'[j].room = ProductRoom(call[c].productId)
                   /\ fanout'[k].room = DashboardRoom
                   /\ {fanout'[i].event, fanout'[j].event, fanout'[k].event} =
                         {"inventory:stock_updated", "product:stock_changed",
                          "dashboard:inventory_changed"}
          /\ (Active(c) /\ call[c].tx = "open") => fanout' = fanout
      ]_vars

\* C17: the stock-changed event built after a committed movement carries
\* previous_stock = the balance read before the mutation and current_stock =
\* the committed new balance, so their difference is the signed delta.
C17_EventCarriesBalances ==
    \A c \in Calls :
       call[c].payload # NoPayload =>
          /\ call[c].payload.previous_stock = call[c].snap.current_stock
          /\ call[c].payload.current_stock = call[c].newStock
          /\ call[c].payload.current_stock - call[c].payload.previous_stock =
                call[c].transactionQuantity

\* the role rooms the contract calls elevated
ElevatedRooms == {"role_admin", "role_manager"}

\* C18: a low-stock alert is delivered only to sockets that are members of
\* role_admin or role_manager, never to a socket that has joined neither, and
\* an out-of-stock alert is delivered to every connected socket.
C18_AlertAudience ==
    [][ fanout' # fanout =>
          \A i \in 1 .. Len(fanout') :
             /\ fanout'[i].event = "inventory:low_stock_alert" =>
                   \A s \in fanout'[i].to :
                      sockets[s].connected /\ sockets[s].rooms \cap ElevatedRooms # {}
             /\ fanout'[i].event = "inventory:out_of_stock_alert" =>
                   fanout'[i].to = {s \in Sockets : sockets[s].connected}
      ]_vars

\* a low-stock alert has reached a manager while another connected socket,
\* in a non-elevated role room, was left out
C18_Witness ==
    /\ Len(fanout) = 2
    /\ fanout[1].event = "inventory:low_stock_alert"
    /\ \E s, t \in Sockets :
          /\ "role_manager" \in sockets[s].rooms
          /\ s \in fanout[2].to
          /\ sockets[t].connected
          /\ "role_user" \in sockets[t].rooms
          /\ t \notin fanout[1].to \cup fanout[2].to

\* C19: within one fan-out (one stock change or one alert) no socket is sent
\* the same event more than once, whatever rooms it has joined.
C19_AtMostOncePerSocket ==
    \A s \in Sockets :
       \A e \in Events(fanout) :
          Cardinality({i \in 1 .. Len(fanout) :
                          fanout[i].event = e /\ s \in fanout[i].to}) <= 1

\* C20: reserveStock with a positive qty <= current_stock - reserved_stock
\* increases reserved_stock by exactly qty; with qty above the available stock
\* it fails with the business-rule error class and leaves the row and the
\* ledger unchanged.
C20_ReserveWithinAvailable ==
    [][ \A c \in Calls :
          LET p == call'[c].productId
              available == inventory[p].current_stock - inventory[p].reserved_stock
          IN
          /\ ( /\ Starts(c, "reserveStock")
               /\ p \in Products
               /\ call'[c].quantity >= 1
               /\ call'[c].quantity <= available ) =>
                call'[c].pc = "update"
          /\ ( /\ call[c].op = "reserveStock" /\ call[c].pc = "update" ) =>
                inventory'[call[c].productId].reserved_stock =
                   inventory[call[c].productId].reserved_stock + call[c].quantity
          /\ ( /\ call[c].op = "reserveStock"
               /\ call[c].productId \in Products
               /\ Finishes(c)
               /\ call[c].quantity >
                     call[c].pre.row.current_stock - call[c].pre.row.reserved_stock ) =>
                /\ call'[c].result = "BusinessLogicError"
                /\ inventory'[call[c].productId] = call[c].pre.row
                /\ transactions' = call[c].pre.ledger
      ]_vars

(* ------------------------- claims C21 .. C30 -------------------------- *)

\* C21: releaseStock with a positive qty <= reserved_stock decreases
\* reserved_stock by exactly qty; with qty above reserved_stock it fails with
\* the business-rule error class and leaves the row unchanged, so
\* reserved_stock never becomes negative.
C21_ReleaseWithinReserved ==
    [][ \A c \in Calls :
          /\ ( /\ Starts(c, "releaseStock")
               /\ call'[c].productId \in Products
               /\ call'[c].quantity >= 1
               /\ call'[c].quantity <= inventory[call'[c].productId].reserved_stock ) =>
                call'[c].pc = "update"
          /\ ( /\ call[c].op = "releaseStock" /\ call[c].pc = "update" ) =>
                inventory'[call[c].productId].reserved_stock =
                   inventory[call[c].productId].reserved_stock - call[c].quantity
          /\ ( /\ call[c].op = "releaseStock"
               /\ call[c].productId \in Products
               /\ Finishes(c)
               /\ call[c].quantity > call[c].pre.row.reserved_stock ) =>
                /\ call'[c].result = "BusinessLogicError"
                /\ inventory'[call[c].productId] = call[c].pre.row
          /\ \A p \in Products : inventory'[p].reserved_stock >= 0
      ]_vars

\* C27: an OUT or ADJUSTMENT whose new balance would be >= 0 but below the
\* product's reserved_stock is rejected with the business-rule error class of
\* insufficient stock, and the balance and the ledger are unchanged.
C27_BelowReservedIsBusinessError ==
    [][ \A c \in Calls :
          ( /\ Movement(c)
            /\ Finishes(c)
            /\ call[c].transaction_type \in {"OUT", "ADJUSTMENT"}
            /\ LET q == call[c].quantity
                   row == call[c].pre.row
                   n == IF call[c].transaction_type = "OUT"
                        THEN row.current_stock - q ELSE q
               IN n >= 0 /\ n < row.reserved_stock ) =>
             /\ call'[c].result = "BusinessLogicError"
             /\ inventory'[call[c].productId] = call[c].pre.row
             /\ transactions' = call[c].pre.ledger
      ]_vars

\* C28: an ADJUSTMENT whose positive target equals the current_stock is
\* accepted: the call succeeds, the balance stays at that value and one
\* ADJUSTMENT ledger entry is recorded for it.
C28_AdjustmentToSameValueAccepted ==
    [][ \A c \in Calls :
          ( /\ Movement(c)
            /\ Finishes(c)
            /\ call[c].transaction_type = "ADJUSTMENT"
            /\ call[c].quantity > 0
            /\ call[c].quantity = call[c].pre.row.current_stock ) =>
             /\ call'[c].result = "ok"
             /\ inventory'[call[c].productId].current_stock = call[c].quantity
             /\ Len(transactions') = Len(call[c].pre.ledger) + 1
             /\ Last(transactions').transaction_type = "ADJUSTMENT"
             /\ Last(transactions').product_id = call[c].productId
      ]_vars

\* C29: every database transaction opened by updateStock is finished exactly
\* once: rollback is only invoked on a transaction that is still open, and a
\* call that has returned has left its transaction committed or rolled back.
C29_TransactionFinishedOnce ==
    \A c \in Calls :
       /\ (call[c].op = "updateStock" /\ call[c].pc = "catch") => call[c].tx = "open"
       /\ call[c].pc = "done" => call[c].tx # "open"

\* this step is taken by call c while it runs one of the operations `ops`
StepOf(c, ops) ==
    /\ call[c] # call'[c]
    /\ (call[c].op \in ops \/ call'[c].op \in ops)

\* C30: updateStock is the only operation that changes the current_stock of an
\* existing row: reserveStock, releaseStock and updateLocation leave every
\* current_stock and the ledger unchanged, and updateStock leaves every
\* reserved_stock unchanged.
C30_OnlyUpdateStockMovesStock ==
    [][ /\ \A p \in Products :
             (inventory'[p].current_stock # inventory[p].current_stock) =>
                \E c \in Calls : /\ call[c].op = "updateStock"
                                 /\ call[c].productId = p
                                 /\ call[c].tx = "open"
                                 /\ call'[c].tx = "committed"
        /\ \A c \in Calls :
             StepOf(c, {"reserveStock", "releaseStock", "updateLocation"}) =>
                /\ \A p \in Products :
                      inventory'[p].current_stock = inventory[p].current_stock
                /\ transactions' = transactions
        /\ \A c \in Calls :
             StepOf(c, {"updateStock"}) =>
                \A p \in Products :
                   inventory'[p].reserved_stock = inventory[p].reserved_stock
      ]_vars

\* a movement has committed on a product part of whose stock is reserved, and
\* the reservation is still there
C30_Witness ==
    /\ call[Caller].op = "updateStock"
    /\ call[Caller].pc = "reread"
    /\ call[Caller].snap.reserved_stock > 0
    /\ inventory[1].reserved_stock = call[Caller].snap.reserved_stock
    /\ inventory[1].current_stock # call[Caller].snap.current_stock

\* C22: no ledger entry is ever inserted without the current_stock change it
\* records: every step that adds an entry also changes the current_stock of the
\* entry's product, and no public operation appends an entry on its own.
C22_LedgerEntryOnlyWithStockChange ==
    [][Len(transactions') > Len(transactions) =>
         LET e == Last(transactions')
         IN inventory'[e.product_id].current_stock
               # inventory[e.product_id].current_stock]_vars

\* C23: the ledger is append-only: no step of any service operation changes or
\* removes an entry that is already in the table.
C23_LedgerAppendOnly ==
    [][/\ Len(transactions') >= Len(transactions)
       /\ SubSeq(transactions', 1, Len(transactions)) = transactions]_vars

\* an operation has succeeded and the ledger holds an entry above an older one
C23_Witness ==
    /\ Len(transactions) >= 2
    /\ call[Caller].pc = "done"
    /\ call[Caller].result = "ok"


\* the movement of call k is one the code accepts on the row `row`
Accepted(k, row) ==
    LET q == sanitizeNumber(k.quantity)
        ns == NewStock(k.transaction_type, row.current_stock, q)
        tq == TransactionQuantity(k.transaction_type, row.current_stock, q)
    IN /\ ~InsufficientStock(k.transaction_type, row.current_stock, q)
       /\ InventoryValid(ns, row.reserved_stock)
       /\ TransactionValid(LedgerQuantity(tq))

C26_ReservedWithinCurrentUnderRace ==
    ~(inventory[1].reserved_stock > inventory[1].current_stock)


\* C25: a movement that has waited the bounded time for the balance row lock
\* without obtaining it goes no further: its next step ends the wait with a
\* contention error, leaving the balance rows and the ledger as they were.
C25_LockWaitEndsWithContentionError ==
    [][\A c \in Calls :
         (/\ call[c].op = "updateStock" /\ call[c].pc = "update"
          /\ rowLock[call[c].productId] # 0
          /\ call[c].waited >= LockWait
          /\ call'[c] # call[c])
         => /\ call'[c].pc = "catch"
            /\ call'[c].err = "ContentionError"
            /\ inventory' = inventory
            /\ transactions' = transactions]_vars


====
